---- MODULE Spec2Model ----
(***************************************************************************)
(* A model of the connection pool of soyvural/connpool (pool.go, conn.go,  *)
(* the counters and stats).  Every caller goroutine is a process whose pc  *)
(* walks through the atomic operations of New, Get, Close (put),           *)
(* MarkUnusable and Stop: channel operations, atomic counter operations    *)
(* and mutex operations are the steps; the goroutines interleave freely.   *)
(***************************************************************************)
EXTENDS Integers, Sequences, FiniteSets, TLC

\* ------------------------------------------------------------- bounds
NProcs == 2            \* caller goroutines using the pool
MaxGets == 3           \* Get calls issued in one behaviour (caps request)
MaxTime == 3           \* the clock runs from 1 to MaxTime
MaxConns == 4          \* wrapper identities that can exist at one time
CfgHi == 3             \* New is tried on Config fields from -1 to CfgHi

Ctor == 0              \* the goroutine that calls New
NoProc == -1           \* mu is not held
NoConn == 0            \* a nil *conn

Procs == 1..NProcs
AllProcs == {Ctor} \cup Procs
WrapIds == 1..MaxConns

VARIABLES
  cfg,        \* pool.cfg: [MinSize, MaxSize, Increment, IdleTimeout]
  factory,    \* "fn" or "nil": the Factory handed to New
  newRet,     \* what New returned: "none" (not yet), "ok", "cfgErr", "factoryErr"
  startErr,   \* the error p.start() returned inside New (TRUE = non-nil)
  conns,      \* the buffer of the channel p.conns (a FIFO of wrapper ids)
  chanSt,     \* "none" (no pool yet), "open", "closed" (close(p.conns)), "nil" (p.conns = nil)
  running,    \* pool.running
  mu,         \* pool.mu: the process holding it, or NoProc
  size, request, success,   \* the three counters of stats
  now,        \* time.Now()
  lastUsed, unUsable,       \* conn.lastUsed, conn.unUsable, per wrapper
  phys,       \* the physical connection of a wrapper: "none", "open", "closed"
  pc,         \* the position of each process
  n, i,       \* tryGet's n / addConnections' size argument, and its loop index
  c,          \* the wrapper a process works on (NoConn = none)
  deferred,   \* wrappers whose Conn.Close() a Get call has deferred
  err,        \* the Go error value of the call in progress
  pan,        \* the call in progress is panicking
  held,       \* the wrappers Get returned to a caller and it has not closed
  exh,        \* the pool was running and exhausted at every step this Get took
  errMsgs,    \* len(errMsgs) while Stop drains
  stopper,    \* the process whose CompareAndSwap stopped the pool
  stopDone,   \* that Stop call has returned
  relAt,      \* when put sent the wrapper into the buffer it is idle in (0 = not by put)
  getsDone, getsOk   \* Get calls completed, and those that returned a connection

vars == <<cfg, factory, newRet, startErr, conns, chanSt,
          running, mu, size, request, success, now, lastUsed, unUsable, phys,
          pc, n, i, c, deferred, err, pan, held, exh, errMsgs, stopper, stopDone,
          getsDone, getsOk, relAt>>

poolVars == <<conns, chanSt, running, mu, size, request, success>>
wrapVars == <<lastUsed, unUsable, phys>>
localVars == <<n, i, c, deferred, err, pan, held, exh>>
envVars == <<cfg, factory, now>>
ghostVars == <<errMsgs, stopper, stopDone, getsDone, getsOk>>

\* ------------------------------------------------------------ helpers
Range(s) == {s[k] : k \in 1..Len(s)}

\* faulty variant of ValidateFails: the increment is not checked
ValidateFailsNoIncrement(k) ==
  k.MinSize < 0 \/ k.MaxSize <= 0 \/ k.MinSize > k.MaxSize

\* Config.validate returns an error
ValidateFails(k) ==
  \/ k.MinSize < 0 \/ k.MaxSize <= 0 \/ k.MinSize > k.MaxSize
  \/ k.Increment > (k.MaxSize - k.MinSize)

\* what New returns once p.start() has returned e: the body of
\* "if err := p.start(); err != nil" is empty, New falls through to "return p, nil"
NewResult(e) == "ok"

\* stats.Available and stats.Active
Available == Len(conns)
Active == size - Len(conns)

\* faulty variant of FreshConn: the first wrapper is handed out again, in use
\* or not
FreshConnSame == CHOOSE w \in WrapIds : \A v \in WrapIds : w <= v

\* the smallest wrapper identity not in use
FreshConn ==
  CHOOSE w \in WrapIds : phys[w] = "none" /\ \A v \in WrapIds : phys[v] = "none" => w <= v

\* w is referenced by the buffer or by a process other than p
RefElsewhere(w, p) ==
  \/ w \in Range(conns)
  \/ \E q \in AllProcs \ {p} : w \in held[q] \/ c[q] = w \/ w \in deferred[q]

\* The wrapper state after Conn.Close() has run on the wrappers ws, of which
\* those in gone are referenced by nothing any more: their identities are free
\* again (the garbage collector's part).
PhysAfterClose(ws, gone) ==
  [w \in WrapIds |-> IF w \in gone THEN "none" ELSE IF w \in ws THEN "closed" ELSE phys[w]]
LastUsedAfter(gone) ==
  [w \in WrapIds |-> IF w \in gone THEN 0 ELSE lastUsed[w]]
UnUsableAfter(gone) ==
  [w \in WrapIds |-> IF w \in gone THEN FALSE ELSE unUsable[w]]

\* -------------------------------------------------------------- Init
TypeInit ==
  /\ newRet = "none" /\ startErr = FALSE
  /\ conns = <<>> /\ chanSt = "none" /\ running = 0 /\ mu = NoProc
  /\ size = 0 /\ request = 0 /\ success = 0
  /\ now = 1
  /\ lastUsed = [w \in WrapIds |-> 0]
  /\ unUsable = [w \in WrapIds |-> FALSE]
  /\ phys = [w \in WrapIds |-> "none"]
  /\ pc = [p \in AllProcs |-> IF p = Ctor THEN "new" ELSE "idle"]
  /\ n = [p \in AllProcs |-> 0]
  /\ i = [p \in AllProcs |-> 0]
  /\ c = [p \in AllProcs |-> NoConn]
  /\ deferred = [p \in AllProcs |-> {}]
  /\ err = [p \in AllProcs |-> "nil"]
  /\ pan = [p \in AllProcs |-> FALSE]
  /\ held = [p \in AllProcs |-> {}]
  /\ exh = [p \in AllProcs |-> FALSE]
  /\ errMsgs = 0 /\ stopper = NoProc /\ stopDone = FALSE
  /\ getsDone = 0 /\ getsOk = 0
  /\ relAt = [w \in WrapIds |-> 0]

\* the Configs the concurrent model builds its pool from (all accepted by New)
PoolConfigs ==
  { [MinSize |-> 0, MaxSize |-> 2, Increment |-> 2, IdleTimeout |-> 1],
    [MinSize |-> 1, MaxSize |-> 2, Increment |-> 1, IdleTimeout |-> 1] }

\* every Config over the bounded integer range, for New
AllConfigs ==
  [MinSize : -1..CfgHi, MaxSize : -1..CfgHi, Increment : -1..CfgHi,
   IdleTimeout : {1}]

Init == TypeInit /\ cfg \in PoolConfigs /\ factory = "fn"

InitNew == TypeInit /\ cfg \in AllConfigs /\ factory \in {"nil", "fn"}

\* --------------------------------------------------------------- New
\* faulty variant of StartSize: start() adds Increment connections
StartSizeIncrement == cfg.Increment

\* p.start() calls p.addConnections(p.cfg.MinSize)
StartSize == cfg.MinSize

\* New up to and including the CompareAndSwap of p.start()
NewCall ==
  /\ pc[Ctor] = "new"
  /\ IF factory = "nil" \/ ValidateFails(cfg)
     THEN /\ newRet' = "cfgErr"
          /\ pc' = [pc EXCEPT ![Ctor] = "idle"]
          /\ UNCHANGED <<chanSt, running, n>>
     ELSE /\ chanSt' = "open"
          /\ running' = 1
          /\ n' = [n EXCEPT ![Ctor] = StartSize]
          /\ pc' = [pc EXCEPT ![Ctor] = "addLock"]
          /\ UNCHANGED newRet
  /\ UNCHANGED <<startErr, conns, mu, size, request, success, wrapVars, envVars,
                 i, c, deferred, err, pan, held, exh, ghostVars, relAt>>

\* ---------------------------------------------------- addConnections
\* faulty variant of AtCapacity: the loop does not look at size
AtCapacityNever == FALSE

\* the loop of addConnections stops: p.stats.size.val() >= p.cfg.MaxSize
AtCapacity == size >= cfg.MaxSize

\* where a call of Get goes when it returns: its deferred Conn.Close() calls
\* run first, then the deferred updateStat
RetPc(p) == IF deferred[p] = {} THEN "updReq" ELSE "ret"

\* p.mu.Lock()
AddLock(p) ==
  /\ pc[p] = "addLock"
  /\ mu = NoProc
  /\ mu' = p
  /\ i' = [i EXCEPT ![p] = 0]
  /\ pc' = [pc EXCEPT ![p] = "addLoop"]
  /\ UNCHANGED <<newRet, startErr, conns, chanSt, running, size, request, success,
                 wrapVars, envVars, n, c, deferred, err, pan, held, exh, ghostVars, relAt>>

\* addConnections returned e (TRUE = the factory's error) and unlocked p.mu:
\* New drops or returns it, tryGet returns it or calls p.get() again
AddReturned(p, e) ==
  /\ mu' = NoProc
  /\ n' = [n EXCEPT ![p] = 0]
  /\ i' = [i EXCEPT ![p] = 0]
  /\ IF p = Ctor
     THEN /\ startErr' = e
          /\ newRet' = NewResult(e)
          /\ pc' = [pc EXCEPT ![p] = "idle"]
          /\ UNCHANGED err
     ELSE /\ err' = [err EXCEPT ![p] = IF e THEN "factory" ELSE "nil"]
          /\ pc' = [pc EXCEPT ![p] = IF e THEN RetPc(p) ELSE "select"]
          /\ UNCHANGED <<newRet, startErr>>

\* one turn of the loop up to the factory call: the loop condition, the size
\* check, p.factory()
AddLoop(p) ==
  /\ pc[p] = "addLoop"
  /\ IF i[p] >= n[p] \/ AtCapacity
     THEN /\ AddReturned(p, FALSE)
          /\ UNCHANGED <<c, phys>>
     ELSE \/ /\ \E w \in WrapIds : phys[w] = "none"
             /\ c' = [c EXCEPT ![p] = FreshConn]
             /\ phys' = [phys EXCEPT ![FreshConn] = "open"]
             /\ pc' = [pc EXCEPT ![p] = "addSend"]
             /\ UNCHANGED <<mu, n, i, err, newRet, startErr>>
          \/ /\ AddReturned(p, TRUE)
             /\ UNCHANGED <<c, phys>>
  /\ UNCHANGED <<conns, chanSt, running, size, request, success, lastUsed, unUsable,
                 cfg, factory, now, deferred, pan, held, exh, ghostVars, relAt>>

\* p.conns <- newConn(c, p): blocks while the buffer is full and for ever on a
\* nil channel; panics on a closed channel (the deferred Unlock runs)
AddSend(p) ==
  /\ pc[p] = "addSend"
  /\ chanSt # "nil"
  /\ IF chanSt = "closed"
     THEN /\ pan' = [pan EXCEPT ![p] = TRUE]
          /\ mu' = NoProc
          /\ c' = [c EXCEPT ![p] = NoConn]
          /\ pc' = [pc EXCEPT ![p] = RetPc(p)]
          /\ UNCHANGED conns
     ELSE /\ Len(conns) < cfg.MaxSize
          /\ conns' = Append(conns, c[p])
          /\ pc' = [pc EXCEPT ![p] = "addInc"]
          /\ UNCHANGED <<pan, mu, c>>
  /\ UNCHANGED <<newRet, startErr, chanSt, running, size, request, success, wrapVars,
                 envVars, n, i, deferred, err, held, exh, ghostVars, relAt>>

\* faulty variant of SizeAfterAdd: the new connection is not counted
SizeAfterAddSame == size

\* p.stats.size.inc()
SizeAfterAdd == size + 1

\* p.stats.size.inc() and i++

AddInc(p) ==
  /\ pc[p] = "addInc"
  /\ size' = SizeAfterAdd
  /\ i' = [i EXCEPT ![p] = i[p] + 1]
  /\ c' = [c EXCEPT ![p] = NoConn]
  /\ pc' = [pc EXCEPT ![p] = "addLoop"]
  /\ UNCHANGED <<newRet, startErr, conns, chanSt, running, mu, request, success,
                 wrapVars, envVars, n, deferred, err, pan, held, exh, ghostVars, relAt>>

\* --------------------------------------------------------------- Get
GetPcs == {"select", "expire", "tryGet", "clamp", "clamp2", "addLock", "addLoop",
           "addSend", "addInc", "ret", "updReq", "updSucc"}

\* Get calls in progress
InGet(p) == p \in Procs /\ pc[p] \in GetPcs
GetsStarted == getsDone + Cardinality({p \in Procs : InGet(p)})

\* the glossary's exhaustion, on a running pool
Exhausted == running = 1 /\ size = cfg.MaxSize /\ conns = <<>>

\* faulty variant of PoolClosed: Get does not look at the pool's state
PoolClosedNever == FALSE

\* Get refuses: p.conns == nil || atomic.LoadInt32(&p.running) == 0
PoolClosed == chanSt = "nil" \/ running = 0

\* get discards c: c.lastUsed > 0 && c.lastUsed < now - IdleTimeout
Expired(w) == lastUsed[w] > 0 /\ lastUsed[w] < now - cfg.IdleTimeout

\* faulty variant of CanGrow: off by one
CanGrowAtMax == size <= cfg.MaxSize

\* tryGet may grow: p.stats.size.val() < p.cfg.MaxSize
CanGrow == size < cfg.MaxSize

\* Get's entry: the closed check (p.conns is read first, running second; running
\* is cleared before p.conns and never set again, so the pair acts as one read)
GetEntry(p) ==
  /\ pc[p] = "idle"
  /\ newRet = "ok"
  /\ GetsStarted < MaxGets
  /\ exh' = [exh EXCEPT ![p] = Exhausted]
  /\ IF PoolClosed
     THEN /\ err' = [err EXCEPT ![p] = "closed"]
          /\ pc' = [pc EXCEPT ![p] = "updReq"]
     ELSE /\ err' = [err EXCEPT ![p] = "nil"]
          /\ pc' = [pc EXCEPT ![p] = "select"]
  /\ UNCHANGED <<newRet, startErr, poolVars, wrapVars, envVars, n, i, c, deferred,
                 pan, held, ghostVars, relAt>>

\* get's select: a receive from p.conns, else the default branch.  A receive on
\* the closed, drained channel yields a nil *conn, and c.lastUsed panics.
GetSelect(p) ==
  /\ pc[p] = "select"
  /\ exh' = [exh EXCEPT ![p] = exh[p] /\ Exhausted]
  /\ IF chanSt # "nil" /\ conns # <<>>
     THEN /\ conns' = Tail(conns)
          /\ c' = [c EXCEPT ![p] = Head(conns)]
          /\ pc' = [pc EXCEPT ![p] = IF Expired(Head(conns)) THEN "expire" ELSE RetPc(p)]
          /\ relAt' = [relAt EXCEPT ![Head(conns)] = 0]
          /\ UNCHANGED pan
     ELSE IF chanSt = "closed"
     THEN /\ pan' = [pan EXCEPT ![p] = TRUE]
          /\ pc' = [pc EXCEPT ![p] = RetPc(p)]
          /\ UNCHANGED <<conns, c, relAt>>
     ELSE /\ pc' = [pc EXCEPT ![p] = "tryGet"]
          /\ UNCHANGED <<conns, c, pan, relAt>>
  /\ UNCHANGED <<newRet, startErr, chanSt, running, mu, size, request, success,
                 wrapVars, envVars, n, i, deferred, err, held, ghostVars>>

\* the expired branch: defer c.Conn.Close(); p.stats.size.dec(); return p.get()
GetExpire(p) ==
  /\ pc[p] = "expire"
  /\ deferred' = [deferred EXCEPT ![p] = deferred[p] \cup {c[p]}]
  /\ c' = [c EXCEPT ![p] = NoConn]
  /\ size' = size - 1
  /\ exh' = [exh EXCEPT ![p] = FALSE]
  /\ pc' = [pc EXCEPT ![p] = "select"]
  /\ UNCHANGED <<newRet, startErr, conns, chanSt, running, mu, request, success,
                 wrapVars, envVars, n, i, err, pan, held, ghostVars, relAt>>

\* tryGet's first read of size
TryGetCheck(p) ==
  /\ pc[p] = "tryGet"
  /\ exh' = [exh EXCEPT ![p] = exh[p] /\ Exhausted]
  /\ IF CanGrow
     THEN /\ pc' = [pc EXCEPT ![p] = "clamp"]
          /\ UNCHANGED err
     ELSE /\ err' = [err EXCEPT ![p] = "exhausted"]
          /\ pc' = [pc EXCEPT ![p] = RetPc(p)]
  /\ UNCHANGED <<newRet, startErr, poolVars, wrapVars, envVars, n, i, c, deferred,
                 pan, held, ghostVars, relAt>>

\* n := Increment; the second read of size: n + size > MaxSize
TryGetClamp(p) ==
  /\ pc[p] = "clamp"
  /\ n' = [n EXCEPT ![p] = cfg.Increment]
  /\ pc' = [pc EXCEPT ![p] = IF cfg.Increment + size > cfg.MaxSize THEN "clamp2" ELSE "addLock"]
  /\ exh' = [exh EXCEPT ![p] = FALSE]
  /\ UNCHANGED <<newRet, startErr, poolVars, wrapVars, envVars, i, c, deferred,
                 err, pan, held, ghostVars, relAt>>

\* the third read of size: n = MaxSize - size
TryGetClamp2(p) ==
  /\ pc[p] = "clamp2"
  /\ n' = [n EXCEPT ![p] = cfg.MaxSize - size]
  /\ pc' = [pc EXCEPT ![p] = "addLock"]
  /\ UNCHANGED <<newRet, startErr, poolVars, wrapVars, envVars, i, c, deferred,
                 err, pan, held, exh, ghostVars, relAt>>

\* the deferred c.Conn.Close() calls of the expired connections run
GetReturn(p) ==
  /\ pc[p] = "ret"
  /\ LET gone == {w \in deferred[p] : ~RefElsewhere(w, p) /\ w \notin held[p]}
     IN /\ phys' = PhysAfterClose(deferred[p], gone)
        /\ lastUsed' = LastUsedAfter(gone)
        /\ unUsable' = UnUsableAfter(gone)
  /\ deferred' = [deferred EXCEPT ![p] = {}]
  /\ pc' = [pc EXCEPT ![p] = "updReq"]
  /\ UNCHANGED <<newRet, startErr, poolVars, envVars, n, i, c, err, pan, held, exh,
                 ghostVars, relAt>>

\* the call of Get is over: it returned c (err = nil), returned err, or the
\* panic goes on into the caller
GetDone(p) ==
  /\ c' = [c EXCEPT ![p] = NoConn]
  /\ err' = [err EXCEPT ![p] = "nil"]
  /\ exh' = [exh EXCEPT ![p] = FALSE]
  /\ IF pan[p]
     THEN /\ pc' = [pc EXCEPT ![p] = "panicked"]
          /\ UNCHANGED <<held, getsDone, getsOk>>
     ELSE /\ pc' = [pc EXCEPT ![p] = "idle"]
          /\ getsDone' = getsDone + 1
          /\ getsOk' = IF err[p] = "nil" THEN getsOk + 1 ELSE getsOk
          /\ held' = [held EXCEPT ![p] = IF err[p] = "nil" THEN held[p] \cup {c[p]} ELSE held[p]]

\* faulty variant of UpdRequest: the request is not counted
UpdRequestSkip(p) ==
  /\ pc[p] = "updReq"
  /\ IF err[p] = "nil"
     THEN /\ pc' = [pc EXCEPT ![p] = "updSucc"]
          /\ UNCHANGED <<c, err, exh, held, getsDone, getsOk>>
     ELSE GetDone(p)
  /\ UNCHANGED request
  /\ UNCHANGED <<newRet, startErr, conns, chanSt, running, mu, size, success, wrapVars,
                 envVars, n, i, deferred, pan, errMsgs, stopper, stopDone, relAt>>

\* updateStat: p.stats.request.inc(); with an error in *err it is over
UpdRequest(p) ==
  /\ pc[p] = "updReq"
  /\ request' = request + 1
  /\ IF err[p] = "nil"
     THEN /\ pc' = [pc EXCEPT ![p] = "updSucc"]
          /\ UNCHANGED <<c, err, exh, held, getsDone, getsOk>>
     ELSE GetDone(p)
  /\ UNCHANGED <<newRet, startErr, conns, chanSt, running, mu, size, success, wrapVars,
                 envVars, n, i, deferred, pan, errMsgs, stopper, stopDone, relAt>>

\* updateStat: *err == nil, p.stats.success.inc()
UpdSuccess(p) ==
  /\ pc[p] = "updSucc"
  /\ success' = success + 1
  /\ GetDone(p)
  /\ UNCHANGED <<newRet, startErr, conns, chanSt, running, mu, size, request, wrapVars,
                 envVars, n, i, deferred, pan, errMsgs, stopper, stopDone, relAt>>

\* ------------------------------------------------- conn.Close and put
\* faulty variant of isUnUsable: the flag is not looked at
isUnUsableNever(w) == FALSE

\* c.isUnUsable()
isUnUsable(w) == unUsable[w]

\* c.Close() with c.Conn not nil is p.put(c): put sees isUnUsable() and closes
\* the connection, or tries the non-blocking send.  A send on the closed
\* channel panics; on a nil or full channel the select takes its default
\* branch.  The caller (process p) gives the wrapper up.
put(p, w) ==
  /\ held' = [held EXCEPT ![p] = held[p] \ {w}]
  /\ IF isUnUsable(w)
     THEN /\ LET gone == IF RefElsewhere(w, p) THEN {} ELSE {w}
             IN /\ phys' = PhysAfterClose({w}, gone)
                /\ lastUsed' = LastUsedAfter(gone)
                /\ unUsable' = UnUsableAfter(gone)
          /\ UNCHANGED <<conns, c, pc, pan, relAt>>
     ELSE IF chanSt = "closed"
     THEN /\ pan' = [pan EXCEPT ![p] = TRUE]
          /\ pc' = [pc EXCEPT ![p] = "panicked"]
          /\ UNCHANGED <<conns, c, wrapVars, relAt>>
     ELSE IF chanSt = "open" /\ Len(conns) < cfg.MaxSize
     THEN /\ conns' = Append(conns, w)
          /\ c' = [c EXCEPT ![p] = w]
          /\ pc' = [pc EXCEPT ![p] = "putStamp"]
          /\ relAt' = [relAt EXCEPT ![w] = now]
          /\ UNCHANGED <<pan, wrapVars>>
     ELSE /\ c' = [c EXCEPT ![p] = w]
          /\ pc' = [pc EXCEPT ![p] = "putDec"]
          /\ UNCHANGED <<conns, pan, wrapVars, relAt>>
  /\ UNCHANGED <<newRet, startErr, chanSt, running, mu, size, request, success,
                 envVars, n, i, deferred, err, exh, ghostVars>>

\* c.Close() on a wrapper the caller holds
CloseCall(p, w) ==
  /\ pc[p] = "idle"
  /\ w \in held[p]
  /\ put(p, w)

\* c.Close() a second time on a wrapper that a first Close released: put sent
\* it into the buffer and returned, and no Get has received it since (it is in
\* the buffer once, its connection open).  The call comes from the caller that
\* kept the wrapper, on any goroutine.
CloseAgain(p, w) ==
  /\ pc[p] = "idle"
  /\ Cardinality({k \in 1..Len(conns) : conns[k] = w}) = 1
  /\ phys[w] = "open"
  /\ relAt[w] > 0
  /\ \A q \in Procs : ~(pc[q] = "putStamp" /\ c[q] = w)
  /\ put(p, w)

\* after the send: c.lastUsed = time.Now().UTC().UnixNano()
PutStamp(p) ==
  /\ pc[p] = "putStamp"
  /\ LET w == c[p]
         gone == IF phys[w] = "closed" /\ ~RefElsewhere(w, p) THEN {w} ELSE {}
     IN /\ lastUsed' = [v \in WrapIds |-> IF v \in gone THEN 0
                                          ELSE IF v = w THEN now ELSE lastUsed[v]]
        /\ phys' = PhysAfterClose({}, gone)
        /\ unUsable' = UnUsableAfter(gone)
  /\ c' = [c EXCEPT ![p] = NoConn]
  /\ pc' = [pc EXCEPT ![p] = "idle"]
  /\ UNCHANGED <<newRet, startErr, poolVars, envVars, n, i, deferred, err, pan, held,
                 exh, ghostVars, relAt>>

\* the default branch: p.stats.size.dec(); return c.Conn.Close()
PutDec(p) ==
  /\ pc[p] = "putDec"
  /\ size' = size - 1
  /\ LET w == c[p]
         gone == IF RefElsewhere(w, p) THEN {} ELSE {w}
     IN /\ phys' = PhysAfterClose({w}, gone)
        /\ lastUsed' = LastUsedAfter(gone)
        /\ unUsable' = UnUsableAfter(gone)
  /\ c' = [c EXCEPT ![p] = NoConn]
  /\ pc' = [pc EXCEPT ![p] = "idle"]
  /\ UNCHANGED <<newRet, startErr, conns, chanSt, running, mu, request, success,
                 envVars, n, i, deferred, err, pan, held, exh, ghostVars, relAt>>

\* ------------------------------------------------------ MarkUnusable
\* c.markUnusable(); p.stats.size.dec() on a wrapper the caller holds (only
\* its holder reads the flag, in put)
MarkUnusable(p, w) ==
  /\ pc[p] = "idle"
  /\ w \in held[p]
  /\ ~unUsable[w]
  /\ unUsable' = [unUsable EXCEPT ![w] = TRUE]
  /\ size' = size - 1
  /\ UNCHANGED <<newRet, startErr, conns, chanSt, running, mu, request, success,
                 lastUsed, phys, envVars, pc, localVars, ghostVars, relAt>>

\* -------------------------------------------------------------- Stop
\* Stop's atomic.CompareAndSwapInt32(&p.running, 1, 0); a call that loses it
\* returns nil
StopCall(p) ==
  /\ pc[p] = "idle"
  /\ newRet = "ok"
  /\ IF running = 1
     THEN /\ running' = 0
          /\ stopper' = p
          /\ pc' = [pc EXCEPT ![p] = "stopLock"]
     ELSE /\ pc' = [pc EXCEPT ![p] = "stopRet"]
          /\ UNCHANGED <<running, stopper>>
  /\ UNCHANGED <<newRet, startErr, conns, chanSt, mu, size, request, success, wrapVars,
                 envVars, localVars, errMsgs, stopDone, getsDone, getsOk, relAt>>

\* p.mu.Lock()
StopLock(p) ==
  /\ pc[p] = "stopLock"
  /\ mu = NoProc
  /\ mu' = p
  /\ pc' = [pc EXCEPT ![p] = "resetSize"]
  /\ UNCHANGED <<newRet, startErr, conns, chanSt, running, size, request, success,
                 wrapVars, envVars, localVars, ghostVars, relAt>>

\* stats.reset: s.size.reset(), s.success.reset(), s.request.reset()
StopResetSize(p) ==
  /\ pc[p] = "resetSize"
  /\ size' = 0
  /\ pc' = [pc EXCEPT ![p] = "resetSuccess"]
  /\ UNCHANGED <<newRet, startErr, conns, chanSt, running, mu, request, success,
                 wrapVars, envVars, localVars, ghostVars, relAt>>

StopResetSuccess(p) ==
  /\ pc[p] = "resetSuccess"
  /\ success' = 0
  /\ pc' = [pc EXCEPT ![p] = "resetRequest"]
  /\ UNCHANGED <<newRet, startErr, conns, chanSt, running, mu, size, request,
                 wrapVars, envVars, localVars, ghostVars, relAt>>

StopResetRequest(p) ==
  /\ pc[p] = "resetRequest"
  /\ request' = 0
  /\ pc' = [pc EXCEPT ![p] = "closeChan"]
  /\ UNCHANGED <<newRet, startErr, conns, chanSt, running, mu, size, success,
                 wrapVars, envVars, localVars, ghostVars, relAt>>

\* close(p.conns)
StopCloseChan(p) ==
  /\ pc[p] = "closeChan"
  /\ chanSt' = "closed"
  /\ pc' = [pc EXCEPT ![p] = "drain"]
  /\ UNCHANGED <<newRet, startErr, conns, running, mu, size, request, success,
                 wrapVars, envVars, localVars, ghostVars, relAt>>

\* faulty variant of StopResult: the collected close errors are dropped
StopResultNil == "nil"

\* Stop's return value: the joined errMsgs if there is one, else nil
StopResult == IF errMsgs > 0 THEN "closeErr" ELSE "nil"

\* one turn of "for c := range p.conns": c.Conn.Close(), which may fail; when
\* the closed channel is drained the loop ends, p.conns = nil, and the return
\* value is built from errMsgs
StopDrain(p) ==
  /\ pc[p] = "drain"
  /\ IF conns # <<>>
     THEN /\ conns' = Tail(conns)
          /\ LET w == Head(conns)
                 gone == IF RefElsewhere(w, p) \/ w \in held[p] THEN {} ELSE {w}
             IN /\ phys' = PhysAfterClose({w}, gone)
                /\ lastUsed' = LastUsedAfter(gone)
                /\ unUsable' = UnUsableAfter(gone)
          /\ \/ UNCHANGED errMsgs
             \/ errMsgs' = errMsgs + 1
          /\ relAt' = [relAt EXCEPT ![Head(conns)] = 0]
          /\ UNCHANGED <<chanSt, err, pc>>
     ELSE /\ chanSt' = "nil"
          /\ err' = [err EXCEPT ![p] = StopResult]
          /\ pc' = [pc EXCEPT ![p] = "stopRet"]
          /\ errMsgs' = 0
          /\ UNCHANGED <<conns, wrapVars, relAt>>
  /\ UNCHANGED <<newRet, startErr, running, mu, size, request, success, cfg, factory,
                 now, n, i, c, deferred, pan, held, exh, stopper, stopDone,
                 getsDone, getsOk>>

\* Stop returns err; the deferred p.mu.Unlock() of the stopping call runs
StopReturn(p) ==
  /\ pc[p] = "stopRet"
  /\ IF mu = p
     THEN mu' = NoProc /\ stopDone' = TRUE
     ELSE UNCHANGED <<mu, stopDone>>
  /\ err' = [err EXCEPT ![p] = "nil"]
  /\ pc' = [pc EXCEPT ![p] = "idle"]
  /\ UNCHANGED <<newRet, startErr, conns, chanSt, running, size, request, success,
                 wrapVars, envVars, n, i, c, deferred, pan, held, exh, errMsgs, stopper,
                 getsDone, getsOk, relAt>>

\* ------------------------------------------------------------- clock
Tick ==
  /\ newRet = "ok"
  /\ now < MaxTime
  /\ now' = now + 1
  /\ UNCHANGED <<cfg, factory, newRet, startErr, poolVars,
                 wrapVars, pc, localVars, ghostVars, relAt>>

\* ------------------------------------------------------------- specs
Next ==
  \/ NewCall
  \/ Tick
  \/ \E p \in AllProcs : AddLock(p) \/ AddLoop(p) \/ AddSend(p) \/ AddInc(p)
  \/ \E p \in Procs :
       \/ GetEntry(p) \/ GetSelect(p) \/ GetExpire(p)
       \/ TryGetCheck(p) \/ TryGetClamp(p) \/ TryGetClamp2(p)
       \/ GetReturn(p) \/ UpdRequest(p) \/ UpdSuccess(p)
       \/ PutStamp(p) \/ PutDec(p)
       \/ StopCall(p) \/ StopLock(p) \/ StopResetSize(p) \/ StopResetSuccess(p)
       \/ StopResetRequest(p) \/ StopCloseChan(p) \/ StopDrain(p) \/ StopReturn(p)
       \/ \E w \in WrapIds : CloseCall(p, w) \/ MarkUnusable(p, w)

Spec == Init /\ [][Next]_vars

NextNew ==
  NewCall \/ AddLock(Ctor) \/ AddLoop(Ctor) \/ AddSend(Ctor) \/ AddInc(Ctor)

SpecNew == InitNew /\ [][NextNew]_vars

\* the running pool used by callers that may call Close twice on a wrapper
\* (no Stop, no MarkUnusable, and the clock stands still: nothing expires)
NextReuse ==
  \/ NewCall
  \/ \E p \in AllProcs : AddLock(p) \/ AddLoop(p) \/ AddSend(p) \/ AddInc(p)
  \/ \E p \in Procs :
       \/ GetEntry(p) \/ GetSelect(p)
       \/ TryGetCheck(p) \/ TryGetClamp(p) \/ TryGetClamp2(p)
       \/ UpdRequest(p) \/ UpdSuccess(p)
       \/ PutStamp(p) \/ PutDec(p)
       \/ \E w \in WrapIds : CloseCall(p, w) \/ CloseAgain(p, w)

SpecReuse == Init /\ [][NextReuse]_vars

\* every Config of the bounded range that New accepts
AcceptedConfigs == {k \in AllConfigs : ~ValidateFails(k)}

InitGet == TypeInit /\ cfg \in AcceptedConfigs /\ factory = "fn"

\* the steps of process p inside a call of New, Get or Close
CallStep(p) ==
  \/ AddLock(p) \/ AddLoop(p) \/ AddSend(p) \/ AddInc(p)
  \/ /\ p \in Procs
     /\ \/ GetSelect(p) \/ TryGetCheck(p) \/ TryGetClamp(p) \/ TryGetClamp2(p)
        \/ UpdRequest(p) \/ UpdSuccess(p) \/ PutStamp(p)

\* Get and Close calls on the running pool (no Stop, no MarkUnusable, and the
\* clock stands still), every goroutine that can run being scheduled in the end
NextGet ==
  \/ NewCall
  \/ \E p \in AllProcs : AddLock(p) \/ AddLoop(p) \/ AddSend(p) \/ AddInc(p)
  \/ \E p \in Procs :
       \/ GetEntry(p) \/ GetSelect(p)
       \/ TryGetCheck(p) \/ TryGetClamp(p) \/ TryGetClamp2(p)
       \/ UpdRequest(p) \/ UpdSuccess(p) \/ PutStamp(p)
       \/ \E w \in WrapIds : CloseCall(p, w)

SpecGet == InitGet /\ [][NextGet]_vars /\ \A p \in AllProcs : WF_vars(CallStep(p))

\* ------------------------------------------------------------ claims
StopPcs == {"stopLock", "resetSize", "resetSuccess", "resetRequest", "closeChan",
            "drain", "stopRet"}
GrowPcs == {"clamp", "clamp2", "addLock", "addLoop", "addSend", "addInc"}
Quiescent == newRet = "ok" /\ \A p \in Procs : pc[p] = "idle"

\* C1: in every reachable state the size counter is at most MaxSize, and so
\* Active() = size - len(conns) is at most MaxSize.  (Active() reads size and
\* then len(conns) >= 0, so any value it can observe is at most a value that
\* size had.)
C1_SizeAtMostMax == size <= cfg.MaxSize /\ Active <= cfg.MaxSize

\* two callers are in a growth attempt at once while size is at MaxSize
C1_Witness ==
  /\ size = cfg.MaxSize
  /\ \E p, q \in Procs : p # q /\ pc[p] \in GrowPcs /\ pc[q] \in GrowPcs

\* C2: a Get call that finds the running pool exhausted (size = MaxSize, empty
\* buffer) at each of its reads of the pool goes straight to the exhaustion
\* error: it never enters the growth path (no lock, no factory call, no
\* waiting), its steps leave size, the buffer and the connections alone, and
\* updateStat counts it as a request and not as a success.
C2_ExhaustedGetFails ==
  /\ [](\A p \in Procs : (InGet(p) /\ exh[p]) =>
          /\ pc[p] \in {"select", "tryGet", "updReq"}
          /\ ~pan[p]
          /\ (pc[p] = "updReq" => err[p] = "exhausted"))
  /\ [][\A p \in Procs :
          (pc'[p] # pc[p] /\ (exh'[p] \/ (exh[p] /\ pc[p] = "updReq"))) =>
            /\ size' = size /\ conns' = conns /\ phys' = phys /\ mu' = mu
            /\ success' = success
            /\ request' = request + (IF pc[p] = "updReq" THEN 1 ELSE 0)
            /\ (pc[p] = "updReq" => pc'[p] = "idle" /\ getsOk' = getsOk)]_vars

\* a Get call is about to return the exhaustion error it got for that reason
C2_Witness ==
  \E p \in Procs : pc[p] = "updReq" /\ exh[p] /\ err[p] = "exhausted" /\ Exhausted

\* C3: while at most MaxSize Get calls have been issued on the running pool
\* (built without a factory failure; nothing marked unusable, no time passed
\* so nothing expired, no Stop), no Get call fails with the exhaustion error.
C3_NoExhaustionUpToMax ==
  \A p \in Procs :
    (/\ pc[p] = "updReq" /\ err[p] = "exhausted"
     /\ ~startErr /\ running = 1 /\ now = 1 /\ \A w \in WrapIds : ~unUsable[w]) =>
      GetsStarted > cfg.MaxSize

\* C4: on the running pool, when no call is in progress and no caller holds a
\* wrapper (each one Get returned has been closed), Active() = 0 and
\* Available() = size, and the idle buffer holds exactly the open connections,
\* each once.
C4_AllReleasedIdle ==
  (Quiescent /\ running = 1 /\ \A p \in Procs : held[p] = {}) =>
    /\ Active = 0
    /\ Available = size
    /\ Range(conns) = {w \in WrapIds : phys[w] = "open"}
    /\ Cardinality(Range(conns)) = Len(conns)

\* two Get calls returned connections and both are back in the buffer
C4_Witness ==
  /\ Quiescent /\ running = 1 /\ \A p \in Procs : held[p] = {}
  /\ getsOk >= 2 /\ Len(conns) = 2 /\ \A w \in Range(conns) : lastUsed[w] > 0

\* C5: every step of a Get call changes request only in updateStat's
\* request.inc(), by one, and success only in its success.inc(), by one; a
\* call returns either after success.inc() with no error or after request.inc()
\* with an error.  So while the pool is not stopped, Request() is the number of
\* Get calls that passed request.inc() and Success() the number that returned a
\* connection.
C5_RequestSuccessCount ==
  /\ [](running = 1 =>
          /\ request = getsDone + Cardinality({p \in Procs : pc[p] = "updSucc"})
          /\ success = getsOk)
  /\ [][\A p \in Procs : (InGet(p) /\ pc'[p] # pc[p]) =>
          /\ request' = request + (IF pc[p] = "updReq" THEN 1 ELSE 0)
          /\ success' = success + (IF pc[p] = "updSucc" THEN 1 ELSE 0)
          /\ (pc'[p] = "idle" => \/ pc[p] = "updSucc" /\ err[p] = "nil"
                                 \/ pc[p] = "updReq" /\ err[p] # "nil")]_vars

\* on the running pool two Get calls are over, one with an error
C5_Witness ==
  /\ Quiescent /\ running = 1
  /\ getsDone >= 2 /\ getsOk >= 1 /\ getsOk < getsDone
  /\ request = getsDone /\ success = getsOk

\* the Config invariants as the data model states them
ConfigValid(k) ==
  k.MinSize >= 0 /\ k.MaxSize > 0 /\ k.MinSize <= k.MaxSize
  /\ k.Increment <= k.MaxSize - k.MinSize

\* the factory calls that produced a connection
Created == {w \in WrapIds : phys[w] # "none"}

\* C6: for a valid Config and a factory that does not fail, New returns a
\* running pool after exactly MinSize factory calls, with Available() = MinSize,
\* Active() = 0, size = MinSize, Request() = 0 and Success() = 0.
C6_NewPopulatesMin ==
  (newRet # "none" /\ factory = "fn" /\ ConfigValid(cfg) /\ ~startErr) =>
    /\ newRet = "ok"
    /\ running = 1
    /\ Cardinality(Created) = cfg.MinSize
    /\ Available = cfg.MinSize
    /\ Active = 0
    /\ size = cfg.MinSize
    /\ request = 0 /\ success = 0

\* New returned a pool of two connections
C6_Witness ==
  /\ newRet = "ok" /\ ~startErr /\ ConfigValid(cfg)
  /\ cfg.MinSize = 2 /\ Available = 2

\* C7: when the factory fails while New creates the initial connections, New
\* returns that error and no pool.
C7_FactoryErrorAbortsNew ==
  (newRet # "none" /\ startErr) => newRet = "factoryErr"

\* C8: New fails if and only if the factory is absent or the Config is
\* invalid, and a New that fails made no factory call and created nothing.
C8_NewFailsIffInvalid ==
  newRet # "none" =>
    /\ (newRet # "ok") <=> (factory = "nil" \/ ~ConfigValid(cfg))
    /\ (newRet # "ok") =>
         Created = {} /\ ~startErr /\ conns = <<>> /\ size = 0 /\ running = 0

\* New refused a Config whose only fault is the increment
C8_Witness ==
  /\ newRet = "cfgErr" /\ factory = "fn"
  /\ cfg.MinSize >= 0 /\ cfg.MaxSize > 0 /\ cfg.MinSize <= cfg.MaxSize
  /\ cfg.Increment > cfg.MaxSize - cfg.MinSize

\* C9: once the stopping Stop call has returned, the pool is not running and
\* never runs again; a Stop call made then returns nil and changes nothing of
\* the pool (no drain, no physical close, no counter reset); a Get call made
\* then returns ErrClosed with no factory call.
C9_StoppedAbsorbing ==
  /\ [](stopDone => running = 0 /\ chanSt = "nil" /\ conns = <<>>)
  /\ [][stopDone => stopDone' /\ running' = 0]_vars
  /\ [][\A p \in Procs : (stopDone /\ pc[p] = "idle" /\ pc'[p] \in StopPcs) =>
          /\ pc'[p] = "stopRet" /\ err'[p] = "nil"
          /\ UNCHANGED <<conns, chanSt, running, mu, size, request, success, phys>>]_vars
  /\ [][\A p \in Procs : (stopDone /\ pc[p] = "stopRet" /\ pc'[p] # pc[p]) =>
          /\ err[p] = "nil" /\ pc'[p] = "idle"
          /\ UNCHANGED <<conns, chanSt, running, mu, size, request, success, phys>>]_vars
  /\ [][\A p \in Procs : (stopDone /\ pc[p] = "idle" /\ pc'[p] \in GetPcs) =>
          /\ pc'[p] = "updReq" /\ err'[p] = "closed"
          /\ UNCHANGED <<conns, chanSt, running, mu, size, phys>>]_vars
  /\ [][\A p \in Procs : (pc[p] = "updReq" /\ err[p] = "closed" /\ pc'[p] # pc[p]) =>
          /\ pc'[p] = "idle" /\ getsOk' = getsOk
          /\ UNCHANGED <<conns, chanSt, running, mu, size, phys, held>>]_vars

\* after Stop returned, the stopping caller's second Stop is returning nil
\* while another caller's Get is returning ErrClosed
C9_Witness ==
  /\ stopDone
  /\ \E p, q \in Procs :
       /\ p = stopper /\ pc[p] = "stopRet" /\ err[p] = "nil"
       /\ pc[q] = "updReq" /\ err[q] = "closed"

\* C10: once Stop has returned (on a pool built without a factory failure),
\* Available(), Active(), Request() and Success() are 0 in every later state.
C10_StatsStayZero ==
  (stopDone /\ ~startErr) =>
    Available = 0 /\ Active = 0 /\ request = 0 /\ success = 0

\* C11: the Stop call that won the CompareAndSwap closes, under the lock and on
\* the stopped pool, every wrapper it takes from the idle buffer: the wrapper's
\* connection was open and is closed by that step, exactly once; a failed close
\* is recorded and the loop goes on.  The loop is left only on the empty
\* buffer, for the return with p.conns = nil, and the value returned is an
\* error if and only if a close failed.
C11_StopClosesIdle ==
  /\ [][\A p \in Procs :
          (pc[p] = "drain" /\ pc' = pc /\ conns # <<>> /\ conns' = Tail(conns)) =>
            /\ mu = p /\ running = 0
            /\ phys[Head(conns)] = "open" /\ phys'[Head(conns)] # "open"
            /\ \A w \in WrapIds \ {Head(conns)} : phys'[w] = phys[w]
            /\ errMsgs' \in {errMsgs, errMsgs + 1}]_vars
  /\ [][errMsgs' > errMsgs =>
          \E p \in Procs : pc[p] = "drain" /\ pc' = pc /\ conns' = Tail(conns)]_vars
  /\ [](errMsgs > 0 => \E p \in Procs : pc[p] = "drain")
  /\ [][\A p \in Procs : (pc[p] = "drain" /\ pc'[p] # "drain") =>
          /\ conns = <<>> /\ conns' = <<>> /\ chanSt' = "nil" /\ running' = 0
          /\ pc'[p] = "stopRet"
          /\ (err'[p] # "nil") <=> (errMsgs > 0)]_vars
  /\ [](\A p \in Procs : (pc[p] = "stopRet" /\ mu = p) =>
          running = 0 /\ conns = <<>> /\ chanSt = "nil")

\* the stopping call returns an error: a close failed, and the buffer is empty
C11_Witness ==
  \E p \in Procs :
    /\ pc[p] = "stopRet" /\ mu = p /\ err[p] = "closeErr"
    /\ conns = <<>> /\ running = 0

\* C12: the idle buffer never holds the same wrapper twice, whatever Close
\* calls are made on wrappers already released.
C12_NoDoubleInsert == Cardinality(Range(conns)) = Len(conns)

\* C13: MarkUnusable on a checked-out wrapper decreases size by one and
\* touches neither the buffer nor the connection; Close on a wrapper marked
\* unusable closes its open connection and leaves size and the buffer as they
\* are.  A wrapper marked unusable is never in the idle buffer and never the
\* wrapper a Get call has received from it.
C13_UnusableDiscarded ==
  /\ [](\A w \in WrapIds : unUsable[w] =>
          /\ w \notin Range(conns)
          /\ \A p \in Procs : pc[p] \in {"expire", "ret", "updReq", "updSucc"} => c[p] # w)
  /\ [][\A p \in Procs : \A w \in held[p] : (~unUsable[w] /\ unUsable'[w]) =>
          size' = size - 1 /\ conns' = conns /\ phys' = phys /\ held' = held]_vars
  /\ [][\A p \in Procs : \A w \in held[p] : (unUsable[w] /\ w \notin held'[p]) =>
          /\ phys[w] = "open" /\ phys'[w] # "open"
          /\ size' = size /\ conns' = conns /\ pc'[p] = "idle"]_vars

\* on the running pool built with one connection, with the clock still at its
\* start, a Get returned that connection and nothing is left of it: it was
\* marked unusable and closed (size is 0, the buffer empty, no connection open)
C13_Witness ==
  /\ Quiescent /\ running = 1 /\ now = 1 /\ ~startErr /\ cfg.MinSize = 1
  /\ getsOk >= 1 /\ size = 0 /\ conns = <<>>
  /\ \A w \in WrapIds : phys[w] = "none"
  /\ \A p \in Procs : held[p] = {}

\* C14: a Get call that receives from the buffer a wrapper that put sent there
\* more than IdleTimeout ago does not return it: it takes the expired branch,
\* which decreases size by one, defers the close of the connection and goes
\* back to the select; the deferred closes run when the call returns.
C14_NoStaleConnReturned ==
  /\ [][\A p \in Procs :
          (/\ pc[p] = "select" /\ conns # <<>> /\ c'[p] = Head(conns) /\ c[p] = NoConn
           /\ relAt[Head(conns)] > 0
           /\ now - relAt[Head(conns)] > cfg.IdleTimeout) => pc'[p] = "expire"]_vars
  /\ [][\A p \in Procs : (pc[p] = "expire" /\ pc'[p] # "expire") =>
          /\ size' = size - 1 /\ pc'[p] = "select"
          /\ c[p] \in deferred'[p] /\ phys' = phys]_vars
  /\ [][\A p \in Procs : (pc[p] = "ret" /\ pc'[p] # "ret") =>
          \A w \in deferred[p] : phys'[w] # "open"]_vars

\* C19: a Get call takes the expired branch only for a wrapper that put sent
\* into the buffer and that has been there for IdleTimeout or longer: a wrapper
\* released less than IdleTimeout ago is not discarded.
C19_DiscardOnlyExpired ==
  [][\A p \in Procs : (pc[p] = "select" /\ pc'[p] = "expire") =>
        /\ relAt[c'[p]] > 0
        /\ now - relAt[c'[p]] >= cfg.IdleTimeout]_vars

\* C15: once New has returned the pool (built without a factory failure), in
\* every state of the running pool Available(), Active(), Request() and
\* Success() are at least 0, and size is at least 0 and at least the number of
\* wrappers in the buffer.
C15_StatsNonNegative ==
  (newRet = "ok" /\ ~startErr /\ running = 1) =>
    /\ Available >= 0 /\ Active >= 0 /\ request >= 0 /\ success >= 0
    /\ size >= Len(conns) /\ size >= 0

\* the connections the factory created that have not been closed
Live == {w \in WrapIds : phys[w] = "open"}

\* C17: in every state at most MaxSize connections are live.
C17_LiveConnsBounded == Cardinality(Live) <= cfg.MaxSize

\* C18: no call panics; the drain and the growth loop never run at the same
\* time; once the stopping Stop call has returned the buffer is empty, no
\* caller is still inside Get or Close, and no connection is created any more.
C18_DrainQuiesced ==
  /\ [](\A p \in Procs : ~pan[p] /\ pc[p] # "panicked")
  /\ [](\A p, q \in Procs :
          pc[p] \in {"closeChan", "drain"} => pc[q] \notin {"addLoop", "addSend", "addInc"})
  /\ [](stopDone =>
          /\ conns = <<>>
          /\ \A p \in Procs : pc[p] \notin (GetPcs \ {"updReq"}) \cup {"putStamp", "putDec"})
  /\ [][stopDone => Live' \subseteq Live]_vars

\* C20: callers that close each wrapper they got at most once never hold the
\* same wrapper at the same time, and a wrapper a caller holds, or the one a Get
\* call is returning, is not in the idle buffer.
C20_ExclusiveCheckout ==
  /\ \A p, q \in Procs : p # q => held[p] \cap held[q] = {}
  /\ \A p \in Procs : held[p] \cap Range(conns) = {}
  /\ \A p \in Procs : (pc[p] \in {"updReq", "updSucc"} /\ err[p] = "nil" /\ ~pan[p]) =>
        /\ c[p] \notin Range(conns)
        /\ \A q \in Procs : c[p] \notin held[q]

\* both callers hold a wrapper, one of them after a release and a new checkout
C20_Witness ==
  /\ \A p \in Procs : held[p] # {}
  /\ getsOk = 3 /\ running = 1

\* C16: every Get call on a pool built from an accepted Config comes to an
\* end (it returns a connection or an error), when every goroutine that can
\* take a step is scheduled in the end.
C16_GetTerminates == \A p \in Procs : InGet(p) ~> ~InGet(p)

\* C21: once the stopping Stop call has returned, no caller holds a wrapper
\* any more and no call is in progress (each call has returned or has ended
\* in a panic), no connection the factory created is still open.
C21_NoLeakAfterStop ==
  (/\ stopDone
   /\ \A p \in Procs : held[p] = {} /\ pc[p] \in {"idle", "panicked"}) =>
    Live = {}

====
